---- MODULE Spec2Model ----
(***************************************************************************)
(* hopmetrics: the beer-menu scraper (scraper.py) and the Flask routes     *)
(* that read and write the same SQLite store (app.py).                     *)
(*                                                                         *)
(* Four specifications share the module:                                   *)
(*   SpecValue  the value calculator applied to bounded inputs;            *)
(*   SpecChain  the selector chains and scrape_establishment's result on   *)
(*              bounded pages;                                             *)
(*   SpecParse  the two item parsers applied to bounded fragments;         *)
(*   Spec       the store: scrape requests executed step by step, manual   *)
(*              entry, and a reader that queries between any two steps.    *)
(*                                                                         *)
(* Numbers.  Python floats are modelled as exact rationals <<n, d>> in     *)
(* lowest terms with d > 0; None is the empty tuple.  Floating-point       *)
(* rounding is not modelled.                                               *)
(***************************************************************************)
EXTENDS Integers, Sequences, FiniteSets

VARIABLES
    args, score, vpc,                  \* SpecValue
    request, page, reply, cpc,         \* SpecChain
    parser, fragment, appended, ppc,   \* SpecParse
    establishments, beers_table,       \* the two tables, as committed
    seq_establishments, seq_beers,     \* sqlite_sequence (AUTOINCREMENT)
    clock,                             \* datetime.now()
    pc, call,                          \* the scrape request in progress
    before, prev,                      \* history: store at the start of the request; the request before it
    view                               \* what the reader last saw

valueVars == <<args, score, vpc>>
chainVars == <<request, page, reply, cpc>>
parseVars == <<parser, fragment, appended, ppc>>
storeVars == <<establishments, beers_table, seq_establishments, seq_beers, clock, pc, call, before, prev, view>>
vars == <<valueVars, chainVars, parseVars, storeVars>>

----------------------------------------------------------------------------
(* Numbers *)

None == <<>>

Abs(n) == IF n < 0 THEN -n ELSE n

RECURSIVE Gcd(_, _)
Gcd(a, b) == IF b = 0 THEN a ELSE Gcd(b, a % b)

Norm(n, d) ==
    LET g == Gcd(Abs(n), Abs(d))
        s == IF d < 0 THEN -1 ELSE 1
    IN  <<(s * n) \div g, (s * d) \div g>>

Num(n) == <<n, 1>>
Frac(n, d) == Norm(n, d)
Zero == Num(0)
Hundred == Num(100)

IsNum(x) == Len(x) = 2
IsZero(x) == IsNum(x) /\ x[1] = 0
IsPositive(x) == IsNum(x) /\ x[1] > 0

\* Python truthiness of a float-or-None: None and 0 are falsy.
Truthy(x) == IsNum(x) /\ x[1] # 0

\* The outcome of evaluating an expression: a value, or the exception raised.
Value(x) == [exc |-> "", val |-> x]
Raise(e) == [exc |-> e, val |-> None]

Mul(a, b) ==
    IF ~IsNum(a) \/ ~IsNum(b) THEN Raise("TypeError")
    ELSE Value(Norm(a[1] * b[1], a[2] * b[2]))

Div(a, b) ==
    IF ~IsNum(a) \/ ~IsNum(b) THEN Raise("TypeError")
    ELSE IF b[1] = 0 THEN Raise("ZeroDivisionError")
    ELSE Value(Norm(a[1] * b[2], a[2] * b[1]))

----------------------------------------------------------------------------
(* BeerScraper.calculate_value_score *)

\* faulty variant: unknown arguments tested with `is None`, so a price of 0
\* reaches the division
calculate_value_score_is_none(volume_oz, abv, price) ==
    IF volume_oz = None \/ abv = None \/ price = None
    THEN Value(Zero)
    ELSE LET ratio == Div(abv, Hundred)
             alcohol_oz == IF ratio.exc # "" THEN ratio ELSE Mul(volume_oz, ratio.val)
         IN  IF alcohol_oz.exc # "" THEN alcohol_oz ELSE Div(alcohol_oz.val, price)

calculate_value_score(volume_oz, abv, price) ==
    IF ~(Truthy(volume_oz) /\ Truthy(abv) /\ Truthy(price)) \/ IsZero(price)
    THEN Value(Zero)
    ELSE LET ratio == Div(abv, Hundred)
             alcohol_oz == IF ratio.exc # "" THEN ratio ELSE Mul(volume_oz, ratio.val)
         IN  IF alcohol_oz.exc # "" THEN alcohol_oz ELSE Div(alcohol_oz.val, price)

----------------------------------------------------------------------------
(* Pages.  A fetched page is the outcome of session.get + raise_for_status *)
(* + BeautifulSoup: ok = FALSE when any of them raised.  Of a parsed page  *)
(* the model keeps what the code reads: the title, h1, summary and meta    *)
(* elements, and for the i-th selector of the applicable list the elements *)
(* soup.select returns, in document order.                                 *)

\* A regex capture handed to float(): no match, or the float() outcome.
NoMatch == <<>>
Match(x) == <<Value(x)>>
BadMatch == <<Raise("ValueError")>>

BeerMenusSelectors == 5
GenericSelectors == 7

BeerMenusUrl == "https://www.beermenus.com/places/1239-bavarian-lodge"
GenericUrl == "https://taproom.example/menu"
Urls == {BeerMenusUrl, GenericUrl}

\* 'beermenus.com' in url
IsBeerMenus(url) == url = BeerMenusUrl

NumSelectors(url) == IF IsBeerMenus(url) THEN BeerMenusSelectors ELSE GenericSelectors

\* An element, as the two parsers read it.
\*   cls_more   'pure-list-item-more' in its class list
\*   h3a        text of h3 > a, <<>> when there is none
\*   caption    p.caption.text-gray split on the middle dot, <<>> when absent
\*   right      div.pure-u-1-3 > p.caption.text-right, <<>> when absent
\*   text       get_text() as parse_generic_beer_info reads it; draft says
\*              whether it mentions 'draft' or 'tap', which that parser
\*              never looks for
Element(more, h3a, caption, right, text) ==
    [cls_more |-> more, h3a |-> h3a, caption |-> caption, right |-> right, text |-> text]

Caption(nparts, style, abv, brewery) ==
    <<[nparts |-> nparts, style |-> style, abv |-> abv, brewery |-> brewery]>>

Right(price, oz, ml, draft) ==
    <<[price |-> price, oz |-> oz, ml |-> ml, draft |-> draft]>>

Text(lead, has_oz, oz, has_ml, ml, pct, dollar, draft) ==
    [lead |-> lead, has_oz |-> has_oz, oz |-> oz, has_ml |-> has_ml, ml |-> ml, pct |-> pct,
     dollar |-> dollar, draft |-> draft]

\* "Hazy IPA": IPA . 6.5% . Brewery B, 16oz Draft $8
ElemX ==
    Element(FALSE, <<"Hazy IPA">>,
            Caption(3, "IPA", Match(Frac(13, 2)), "Brewery B"),
            Right(Match(Num(8)), Match(Num(16)), NoMatch, TRUE),
            Text("Hazy IPA", TRUE, Match(Num(16)), FALSE, NoMatch, Match(Frac(13, 2)), Match(Num(8)), TRUE))

\* "Pils": a name and nothing else
ElemY ==
    Element(FALSE, <<"Pils">>, <<>>, <<>>,
            Text("Pils", FALSE, NoMatch, FALSE, NoMatch, NoMatch, NoMatch, FALSE))

\* a fragment with no h3 > a and no leading letters: "$5 specials"
ElemNoName ==
    Element(FALSE, <<>>, <<>>, Right(Match(Num(5)), NoMatch, NoMatch, FALSE),
            Text("", FALSE, NoMatch, FALSE, NoMatch, NoMatch, Match(Num(5)), FALSE))

\* the "View all" row of a section
ElemMore ==
    Element(TRUE, <<"View all">>, <<>>, <<>>,
            Text("View all", FALSE, NoMatch, FALSE, NoMatch, NoMatch, NoMatch, FALSE))

Elements == {ElemX, ElemY, ElemNoName, ElemMore}

\* "Dunkel": Lager . 5.4% . Brewery C, no price element
ElemZ ==
    Element(FALSE, <<"Dunkel">>,
            Caption(3, "Lager", Match(Frac(27, 5)), "Brewery C"),
            <<>>,
            Text("Dunkel", FALSE, NoMatch, FALSE, NoMatch, Match(Frac(27, 5)), NoMatch, FALSE))

Title(kind, name, location) == [kind |-> kind, name |-> name, location |-> location]

PageHead(title, h1, counts, meta) == [title |-> title, h1 |-> h1, counts |-> counts, meta |-> meta]

Heads ==
    { PageHead(Title("name_menu_location", "Bavarian Lodge", "Lisle, IL"), "Bavarian Lodge", "12 on tap", "Beer menu"),
      PageHead(Title("none", "", ""), "Taproom", "", "About us"),
      PageHead(Title("other", "", ""), "", "", ""),
      PageHead(Title("name_menu", "Unknown", ""), "", "", "") }

Page(ok, head, matches) == [ok |-> ok, head |-> head, matches |-> matches]

NoMatches(url) == [i \in 1..NumSelectors(url) |-> <<>>]

\* soup.select(selector) for the i-th selector of the list in use
select(p, i) == p.matches[i]

----------------------------------------------------------------------------
(* Items *)

Some(x) == <<x>>

Beer(name, volume_oz, abv, price, brewery, style) ==
    [name |-> name, volume_oz |-> volume_oz, abv |-> abv, price |-> price, brewery |-> brewery, style |-> style]

\* float(m.group(1)) if m else None; "raised" when float() raised
Float(capture) ==
    IF capture = NoMatch THEN Value(None) ELSE capture[1]

\* faulty variant: the factor cut to two digits
MlToOzTruncated == Frac(33, 1000)

MlToOz == Frac(33814, 1000000)

\* BeerScraper.parse_beermenus_item: None on a missing name link or any exception
parse_beermenus_item(item) ==
    IF item.h3a = <<>> THEN <<>>
    ELSE
    LET name == item.h3a[1]
        cap == IF item.caption = <<>> THEN <<>> ELSE item.caption[1]
        has2 == item.caption # <<>> /\ cap.nparts >= 2
        has3 == item.caption # <<>> /\ cap.nparts >= 3
        style == IF has2 THEN cap.style ELSE ""
        abv == IF has2 THEN Float(cap.abv) ELSE Value(None)
        brewery == IF has3 THEN cap.brewery ELSE ""
        rt == IF item.right = <<>> THEN <<>> ELSE item.right[1]
        price == IF item.right = <<>> THEN Value(None) ELSE Float(rt.price)
        parsed == IF item.right = <<>> THEN Value(None)
                  ELSE IF rt.oz # NoMatch THEN Float(rt.oz)
                  ELSE IF rt.ml # NoMatch
                       THEN LET ml == Float(rt.ml)
                            IN  IF ml.exc # "" THEN ml ELSE Mul(ml.val, MlToOz)
                       ELSE Value(None)
        volume_oz == IF parsed.val # None THEN parsed.val
                     ELSE IF item.right # <<>> /\ rt.draft THEN Num(16)
                     ELSE Num(12)
    IN  IF abv.exc # "" \/ price.exc # "" \/ parsed.exc # "" THEN <<>>
        ELSE Some(Beer(name, volume_oz, abv.val, price.val, brewery, style))

\* BeerScraper.parse_generic_beer_info: None on an empty name or any exception
parse_generic_beer_info(beer_element) ==
    LET t == beer_element.text
        parsed == IF t.has_oz
                  THEN Float(t.oz)
                  ELSE IF t.has_ml
                       THEN LET ml == Float(t.ml)
                            IN  IF ml.exc # "" \/ ml.val = None THEN ml ELSE Mul(ml.val, MlToOz)
                       ELSE Value(None)
        abv == Float(t.pct)
        price == Float(t.dollar)
        name == t.lead
    IN  IF parsed.exc # "" \/ abv.exc # "" \/ price.exc # "" THEN <<>>
        ELSE IF name = "" THEN <<>>
        ELSE Some(Beer(name, IF Truthy(parsed.val) THEN parsed.val ELSE Num(12),
                       abv.val, price.val, "", ""))

\* `if beer_data and beer_data['name']: beers.append(beer_data)`
Keep(beer_data) ==
    IF beer_data # <<>> /\ beer_data[1].name # "" THEN beer_data ELSE <<>>

----------------------------------------------------------------------------
(* The selector chains *)

Info(name, location, description) ==
    [name |-> name, location |-> location, description |-> description]

\* BeerScraper.extract_establishment_info
extract_establishment_info(head) ==
    LET t == head.title
        name0 == IF t.kind \in {"name_menu_location", "name_menu"} THEN t.name
                 ELSE "Unknown Establishment"
        location == IF t.kind = "name_menu_location" THEN t.location ELSE ""
        name == IF head.h1 # "" /\ name0 = "Unknown Establishment" THEN head.h1 ELSE name0
        description == IF head.counts # "" THEN head.counts ELSE head.meta
    IN  Info(name, location, description)

\* the items one selector's elements parse to (known-site list): the inner
\* loop of scrape_beermenus, which skips the "View all" rows
RECURSIVE BeerMenusItems(_)
BeerMenusItems(items) ==
    IF items = <<>> THEN <<>>
    ELSE LET item == Head(items)
         IN  (IF item.cls_more THEN <<>> ELSE Keep(parse_beermenus_item(item)))
             \o BeerMenusItems(Tail(items))

\* the items one selector's elements parse to (generic list)
RECURSIVE GenericItems(_)
GenericItems(elements) ==
    IF elements = <<>> THEN <<>>
    ELSE Keep(parse_generic_beer_info(Head(elements))) \o GenericItems(Tail(elements))

\* `for selector in beer_sections:` from the i-th selector on, beers so far
RECURSIVE BeerSections(_, _, _)
BeerSections(p, i, beers) ==
    IF i > BeerMenusSelectors THEN beers
    ELSE LET items == select(p, i)
         IN  IF items # <<>>
             THEN BeerSections(p, i + 1, beers \o BeerMenusItems(items))
             ELSE BeerSections(p, i + 1, beers)

\* BeerScraper.scrape_beermenus: (beers, establishment_info)
scrape_beermenus(p) ==
    IF ~p.ok
    THEN [beers |-> <<>>, info |-> Info("Unknown", "", "")]
    ELSE [beers |-> BeerSections(p, 1, <<>>), info |-> extract_establishment_info(p.head)]

\* `for selector in beer_selectors:` with its break after the first selector
\* that selects anything
RECURSIVE BeerSelectors(_, _, _)
BeerSelectors(p, i, beers) ==
    IF i > GenericSelectors THEN beers
    ELSE LET elements == select(p, i)
         IN  IF elements # <<>>
             THEN beers \o GenericItems(elements)
             ELSE BeerSelectors(p, i + 1, beers)

\* faulty variant: the loop without the break
RECURSIVE BeerSelectorsNoBreak(_, _, _)
BeerSelectorsNoBreak(p, i, beers) ==
    IF i > GenericSelectors THEN beers
    ELSE BeerSelectorsNoBreak(p, i + 1, beers \o GenericItems(select(p, i)))

\* faulty variant: the loop breaking only once a selector has produced an item
RECURSIVE BeerSelectorsUntilItem(_, _, _)
BeerSelectorsUntilItem(p, i, beers) ==
    IF i > GenericSelectors THEN beers
    ELSE LET found == beers \o GenericItems(select(p, i))
         IN  IF found # <<>> THEN found ELSE BeerSelectorsUntilItem(p, i + 1, found)

\* faulty variants of scrape_generic_menu, one per loop above
scrape_generic_menu_no_break(p) ==
    IF ~p.ok THEN <<>> ELSE BeerSelectorsNoBreak(p, 1, <<>>)

scrape_generic_menu_until_item(p) ==
    IF ~p.ok THEN <<>> ELSE BeerSelectorsUntilItem(p, 1, <<>>)

\* BeerScraper.scrape_generic_menu
scrape_generic_menu(p) ==
    IF ~p.ok THEN <<>> ELSE BeerSelectors(p, 1, <<>>)

\* f'Generic scrape from {url}'
GenericDescription(url) == "Generic scrape from " \o url

\* BeerScraper.scrape_establishment_menu
scrape_establishment_menu(url, p) ==
    IF IsBeerMenus(url) THEN scrape_beermenus(p)
    ELSE [beers |-> scrape_generic_menu(p),
          info |-> Info("Unknown Establishment", "", GenericDescription(url))]

\* `a or b` on strings, None written ""
Or(a, b) == IF a # "" THEN a ELSE b

\* scrape_establishment up to its call of save_establishment: the extracted
\* beers and the names it will store and return
Scraped(url, name, location, p) ==
    LET menu == scrape_establishment_menu(url, p)
    IN  [beers |-> menu.beers,
         final_name |-> Or(name, menu.info.name),
         final_location |-> Or(location, menu.info.location),
         description |-> menu.info.description]

\* the value scrape_establishment returns
Returned(s) ==
    [count |-> Len(s.beers), name |-> s.final_name, location |-> s.final_location, description |-> s.description]

----------------------------------------------------------------------------
(* Bounds *)

\* numerators of the floats handed to the value calculator
MaxNumerator == 16
\* elements on one page, over all selectors
MaxElements == 2

----------------------------------------------------------------------------
(* Idle values of the variables a specification does not use *)

NoArgs == [volume_oz |-> None, abv |-> None, price |-> None]
NoRequest == [url |-> "", name |-> "", location |-> ""]
NoPage == [ok |-> FALSE, head |-> PageHead(Title("none", "", ""), "", "", ""), matches |-> <<>>]
NoReply == [beers |-> <<>>, returned |-> [count |-> 0, name |-> "", location |-> "", description |-> ""]]

ValueIdle == args = NoArgs /\ score = Value(None) /\ vpc = "off"
ChainIdle == request = NoRequest /\ page = NoPage /\ reply = NoReply /\ cpc = "off"
ParseIdle == parser = "" /\ fragment = ElemNoName /\ appended = <<>> /\ ppc = "off"

----------------------------------------------------------------------------
(* SpecValue: calculate_value_score on bounded inputs *)

Floats == {None} \cup {Frac(n, d) : n \in 0..MaxNumerator, d \in {1, 2}}

ValueInit ==
    /\ args \in [volume_oz : Floats, abv : Floats, price : Floats]
    /\ score = Value(None)
    /\ vpc = "call"

Calculate ==
    /\ vpc = "call"
    /\ score' = calculate_value_score(args.volume_oz, args.abv, args.price)
    /\ vpc' = "returned"
    /\ UNCHANGED <<args, chainVars, parseVars, storeVars>>

ValueNext == Calculate

----------------------------------------------------------------------------
(* SpecChain: one scrape_establishment call, up to the value it returns,   *)
(* on a page the site has published                                        *)

\* the callers: scrape_page passes the url alone, main() all three
Overrides == {<<"", "">>, <<"Bavarian Lodge", "Lisle, IL">>}

Requests == {[url |-> u, name |-> o[1], location |-> o[2]] : u \in Urls, o \in Overrides}

RECURSIVE Total(_, _)
Total(matches, i) == IF i = 0 THEN 0 ELSE Len(matches[i]) + Total(matches, i - 1)

ChainInit ==
    /\ request \in Requests
    /\ \E ok \in BOOLEAN, h \in Heads :
          /\ ok \/ h = CHOOSE x \in Heads : x.title.kind = "other"
          /\ page = Page(ok, h, NoMatches(request.url))
    /\ reply = NoReply
    /\ cpc = "published"

\* the site adds one more element under the i-th selector
Publish(i, e) ==
    /\ cpc = "published"
    /\ page.ok
    /\ Total(page.matches, NumSelectors(request.url)) < MaxElements
    /\ page' = [page EXCEPT !.matches[i] = Append(@, e)]
    /\ UNCHANGED <<request, reply, cpc, valueVars, parseVars, storeVars>>

ScrapeOnce ==
    /\ cpc = "published"
    /\ LET s == Scraped(request.url, request.name, request.location, page)
       IN  reply' = [beers |-> s.beers, returned |-> Returned(s)]
    /\ cpc' = "returned"
    /\ UNCHANGED <<request, page, valueVars, parseVars, storeVars>>

ChainNext ==
    \/ \E i \in 1..NumSelectors(request.url), e \in Elements : Publish(i, e)
    \/ ScrapeOnce

----------------------------------------------------------------------------
(* SpecParse: parse_beermenus_item and parse_generic_beer_info, each on    *)
(* the fragments it can be handed, followed by the caller's name test      *)

\* what a '%', '$', 'oz' or 'ml' pattern may capture: nothing, a run of
\* digits and dots that float() rejects ("6.50."), or a number
Percents == {NoMatch, BadMatch, Match(Frac(13, 2))}
Dollars == {NoMatch, BadMatch, Match(Num(8))}
Ounces == {NoMatch, BadMatch, Match(Num(0)), Match(Num(16))}
Millilitres == {NoMatch, BadMatch, Match(Num(355))}

Captions ==
    {<<>>} \cup {Caption(n, "IPA", abv, "Brewery B") : n \in 1..4, abv \in Percents}

Rights ==
    {<<>>} \cup {Right(price, oz, ml, draft) :
                    price \in Dollars, oz \in Ounces, ml \in Millilitres, draft \in BOOLEAN}

NoText == Text("", FALSE, NoMatch, FALSE, NoMatch, NoMatch, NoMatch, FALSE)

\* li.pure-list-item fragments: the name link missing, blank or present
BeerMenusFragments ==
    {Element(FALSE, h3a, caption, right, NoText) :
        h3a \in {<<>>, <<"">>, <<"Pils">>}, caption \in Captions, right \in Rights}

\* a capture needs its unit in the text
Texts ==
    {t \in {Text(lead, has_oz, oz, has_ml, ml, pct, dollar, draft) :
                lead \in {"", "Pils"}, has_oz \in BOOLEAN, oz \in Ounces, has_ml \in BOOLEAN,
                ml \in Millilitres, pct \in Percents, dollar \in Dollars, draft \in BOOLEAN} :
        /\ t.oz # NoMatch => t.has_oz
        /\ t.ml # NoMatch => t.has_ml}

GenericFragments == {Element(FALSE, <<>>, <<>>, <<>>, t) : t \in Texts}

ParseInit ==
    /\ parser \in {"beermenus", "generic"}
    /\ fragment \in IF parser = "beermenus" THEN BeerMenusFragments ELSE GenericFragments
    /\ appended = <<>>
    /\ ppc = "call"

\* beer_data = self.parse_...(element); if beer_data and beer_data['name']: ...
ParseItem ==
    /\ ppc = "call"
    /\ appended' = IF parser = "beermenus" THEN Keep(parse_beermenus_item(fragment))
               ELSE Keep(parse_generic_beer_info(fragment))
    /\ ppc' = "parsed"
    /\ UNCHANGED <<parser, fragment, valueVars, chainVars, storeVars>>

ParseNext == ParseItem

----------------------------------------------------------------------------
(* The store: the tables of init_db *)

Establishment(id, name, url, location, last_scraped) ==
    [id |-> id, name |-> name, url |-> url, location |-> location, last_scraped |-> last_scraped]

BeerRow(id, establishment_id, name, volume_oz, abv, price, value_score, brewery, ba_rating) ==
    [id |-> id, establishment_id |-> establishment_id, name |-> name, volume_oz |-> volume_oz,
     abv |-> abv, price |-> price, value_score |-> value_score, brewery |-> brewery,
     ba_rating |-> ba_rating]

\* faulty variant: an upsert that updates the row of this url in place, keeping its id
UpsertInPlace(rows, seq, name, url, location, now) ==
    IF \E r \in rows : r.url = url
    THEN LET old == CHOOSE r \in rows : r.url = url
         IN  [rows |-> (rows \ {old}) \cup {Establishment(old.id, name, url, location, now)},
              seq |-> seq, lastrowid |-> old.id]
    ELSE [rows |-> rows \cup {Establishment(seq + 1, name, url, location, now)},
          seq |-> seq + 1, lastrowid |-> seq + 1]

\* faulty variant: a plain INSERT into a table whose url column is not UNIQUE
InsertOnly(rows, seq, name, url, location, now) ==
    [rows |-> rows \cup {Establishment(seq + 1, name, url, location, now)},
     seq |-> seq + 1, lastrowid |-> seq + 1]

\* faulty variant: id INTEGER PRIMARY KEY without AUTOINCREMENT: the new row takes
\* the largest remaining rowid plus one, so the id of a replaced row can return
InsertOrReplaceRowid(rows, seq, name, url, location, now) ==
    LET kept == {r \in rows : r.url # url}
        top == IF kept = {} THEN 0 ELSE CHOOSE n \in {r.id : r \in kept} : \A r \in kept : r.id <= n
    IN  [rows |-> kept \cup {Establishment(top + 1, name, url, location, now)},
         seq |-> top + 1, lastrowid |-> top + 1]

\* INSERT OR REPLACE INTO establishments (name, url, location, last_scraped):
\* url is UNIQUE, so the row of this url is deleted; id is AUTOINCREMENT, so
\* the new row takes the next id; lastrowid is that id
InsertOrReplace(rows, seq, name, url, location, now) ==
    [rows |-> {r \in rows : r.url # url} \cup {Establishment(seq + 1, name, url, location, now)},
     seq |-> seq + 1, lastrowid |-> seq + 1]

\* faulty variant: a DELETE with no WHERE clause
DeleteAllBeers(rows, establishment_id) ==
    {}

\* DELETE FROM beers WHERE establishment_id = ?
DeleteBeers(rows, establishment_id) ==
    {b \in rows : b.establishment_id # establishment_id}

\* FROM beers b JOIN establishments e ON b.establishment_id = e.id, for one url
JoinedBeers(E, B, url) ==
    {b \in B : \E e \in E : e.url = url /\ e.id = b.establishment_id}

\* SELECT e.url, COUNT(b.id) FROM establishments e LEFT JOIN beers b ... GROUP BY e.id
BeerCounts(E, B) ==
    {<<e.url, Cardinality({b \in B : b.establishment_id = e.id})>> : e \in E}

----------------------------------------------------------------------------
(* Spec: the requests *)

\* datetime.now() values the model runs to
MaxClock == 3

EmptyHead == PageHead(Title("other", "", ""), "", "", "")
LodgeHead == PageHead(Title("name_menu_location", "Bavarian Lodge", "Lisle, IL"), "", "12 on tap", "")

Sections(first, second) ==
    [i \in 1..GenericSelectors |-> IF i = 1 THEN first ELSE IF i = 2 THEN second ELSE <<>>]

\* the pages a scrape request may be answered with
StorePages ==
    { Page(FALSE, EmptyHead, Sections(<<>>, <<>>)),
      Page(TRUE, EmptyHead, Sections(<<>>, <<>>)),
      Page(TRUE, LodgeHead, Sections(<<ElemY>>, <<>>)),
      Page(TRUE, EmptyHead, Sections(<<ElemNoName>>, <<ElemY>>)),
      Page(TRUE, LodgeHead, Sections(<<ElemX, ElemY>>, <<ElemZ>>)) }

\* search_beeradvocate: None, or what the profile page gave
NoData == <<>>
Lookups == {NoData, <<[rating |-> Frac(41, 10)]>>}

NoTx == [rows |-> {}, seq |-> 0]

NoCall ==
    [url |-> "", beers |-> <<>>, final_name |-> "", final_location |-> "", description |-> "",
     establishment_id |-> 0, now |-> 0, i |-> 0, ba_data |-> NoData, tx |-> NoTx,
     time |-> 0, log |-> <<>>]

\* one entry of the call's log: a lookup that returned, or an INSERT, of the
\* i-th beer, at the time the call has spent sleeping so far
Event(op, i, at, found) == [op |-> op, i |-> i, at |-> at, found |-> found]

\* the argument of time.sleep
SleepSeconds == 1

NoBefore == [ids |-> {}, stored |-> FALSE]
NoPrev == [kind |-> "none", url |-> "", name |-> "", location |-> "", beers |-> <<>>, count |-> 0]

StoreIdle ==
    /\ establishments = {} /\ beers_table = {}
    /\ seq_establishments = 0 /\ seq_beers = 0
    /\ clock = 0
    /\ pc = "off" /\ call = NoCall
    /\ before = NoBefore /\ prev = NoPrev
    /\ view = {}

StoreInit ==
    /\ establishments = {} /\ beers_table = {}
    /\ seq_establishments = 0 /\ seq_beers = 0
    /\ clock = 0
    /\ pc = "idle" /\ call = NoCall
    /\ before = NoBefore /\ prev = NoPrev
    /\ view = {}

\* scrape_page -> scrape_establishment(url): the menu is fetched and parsed
ScrapeMenu(url, p) ==
    /\ pc = "idle"
    /\ clock < MaxClock
    /\ LET s == Scraped(url, "", "", p)
       IN  call' = [NoCall EXCEPT !.url = url, !.beers = s.beers, !.final_name = s.final_name,
                                  !.final_location = s.final_location, !.description = s.description]
    /\ before' = [ids |-> {b.id : b \in JoinedBeers(establishments, beers_table, url)},
                  stored |-> \E e \in establishments : e.url = url]
    /\ pc' = "save_establishment"
    /\ UNCHANGED <<establishments, beers_table, seq_establishments, seq_beers, clock, prev, view>>

\* save_establishment: one committed statement
save_establishment(rows, seq, name, url, location, now) ==
    InsertOrReplace(rows, seq, name, url, location, now)

SaveEstablishment ==
    /\ pc = "save_establishment"
    /\ LET saved == save_establishment(establishments, seq_establishments, call.final_name,
                                       call.url, call.final_location, clock + 1)
       IN  /\ establishments' = saved.rows
           /\ seq_establishments' = saved.seq
           /\ call' = [call EXCEPT !.establishment_id = saved.lastrowid, !.now = clock + 1]
    /\ clock' = clock + 1
    /\ pc' = IF call.beers # <<>> THEN "save_beers" ELSE "return"
    /\ UNCHANGED <<beers_table, seq_beers, before, prev, view>>

\* save_beers opens its transaction with the DELETE
SaveBeersDelete ==
    /\ pc = "save_beers"
    /\ call' = [call EXCEPT !.tx = [rows |-> DeleteBeers(beers_table, call.establishment_id),
                                    seq |-> seq_beers],
                            !.i = 1]
    /\ pc' = "loop"
    /\ UNCHANGED <<establishments, beers_table, seq_establishments, seq_beers, clock, before, prev, view>>

\* `if beer.get('brewery'): ba_data = self.search_beeradvocate(...)`
Lookup(ba_data) ==
    /\ pc = "loop"
    /\ call.i <= Len(call.beers)
    /\ call.beers[call.i].brewery # ""
    /\ call' = [call EXCEPT !.ba_data = ba_data,
                            !.log = Append(@, Event("lookup", call.i, call.time, ba_data # NoData))]
    /\ pc' = "sleep"
    /\ UNCHANGED <<establishments, beers_table, seq_establishments, seq_beers, clock, before, prev, view>>

\* faulty variant: the sleep skipped when the lookup found nothing
SleepIfFound ==
    /\ pc = "sleep"
    /\ call' = [call EXCEPT !.time = IF call.ba_data # NoData THEN @ + SleepSeconds ELSE @]
    /\ pc' = "insert"
    /\ UNCHANGED <<establishments, beers_table, seq_establishments, seq_beers, clock, before, prev, view>>

\* time.sleep(1), after every lookup
Sleep ==
    /\ pc = "sleep"
    /\ call' = [call EXCEPT !.time = @ + SleepSeconds]
    /\ pc' = "insert"
    /\ UNCHANGED <<establishments, beers_table, seq_establishments, seq_beers, clock, before, prev, view>>

\* no brewery: no lookup, no sleep
NoLookup ==
    /\ pc = "loop"
    /\ call.i <= Len(call.beers)
    /\ call.beers[call.i].brewery = ""
    /\ call' = [call EXCEPT !.ba_data = NoData]
    /\ pc' = "insert"
    /\ UNCHANGED <<establishments, beers_table, seq_establishments, seq_beers, clock, before, prev, view>>

\* value_score and the INSERT of one beer, inside the open transaction; an
\* exception leaves scrape_establishment with the transaction uncommitted
InsertBeer ==
    /\ pc = "insert"
    /\ LET beer == call.beers[call.i]
           value_score == calculate_value_score(beer.volume_oz, beer.abv, beer.price)
           row == BeerRow(call.tx.seq + 1, call.establishment_id, beer.name, beer.volume_oz,
                          beer.abv, beer.price, value_score.val, beer.brewery,
                          IF call.ba_data # NoData THEN call.ba_data[1].rating ELSE None)
       IN  IF value_score.exc # ""
           THEN /\ pc' = "idle"
                /\ call' = NoCall
                /\ prev' = [NoPrev EXCEPT !.kind = "error"]
           ELSE /\ pc' = "loop"
                /\ call' = [call EXCEPT !.tx = [rows |-> call.tx.rows \cup {row}, seq |-> call.tx.seq + 1],
                                        !.i = call.i + 1,
                                        !.log = Append(@, Event("insert", call.i, call.time, FALSE))]
                /\ prev' = prev
    /\ UNCHANGED <<establishments, beers_table, seq_establishments, seq_beers, clock, before, view>>

\* conn.commit() of save_beers
CommitBeers ==
    /\ pc = "loop"
    /\ call.i > Len(call.beers)
    /\ beers_table' = call.tx.rows
    /\ seq_beers' = call.tx.seq
    /\ pc' = "return"
    /\ UNCHANGED <<establishments, seq_establishments, clock, call, before, prev, view>>

\* scrape_establishment returns (len(beers), {...})
Return ==
    /\ pc = "return"
    /\ prev' = [kind |-> "scrape", url |-> call.url, name |-> call.final_name,
                location |-> call.final_location, beers |-> call.beers,
                count |-> Cardinality(JoinedBeers(establishments, beers_table, call.url))]
    /\ call' = NoCall
    /\ pc' = "idle"
    /\ UNCHANGED <<establishments, beers_table, seq_establishments, seq_beers, clock, before, view>>

----------------------------------------------------------------------------
(* manual_entry (POST) *)

FormRow(name, volume, abv, price) == [name |-> name, volume |-> volume, abv |-> abv, price |-> price]

Form(establishment_name, establishment_url, establishment_location, rows) ==
    [establishment_name |-> establishment_name, establishment_url |-> establishment_url,
     establishment_location |-> establishment_location, rows |-> rows]

\* a form field: blank, or the text float() is applied to
Blank == NoMatch

Forms ==
    { Form("Corner Bar", "", "", <<FormRow("Lager", Blank, Blank, Blank)>>),
      Form("Bavarian Lodge", BeerMenusUrl, "Lisle, IL", <<FormRow("Stout", Match(Num(16)), Match(Num(8)), Match(Num(0)))>>),
      Form("Taproom", GenericUrl, "", <<FormRow("", Blank, Blank, Blank), FormRow("Porter", Match(Num(12)), Match(Num(6)), Match(Num(6)))>>),
      Form("", "", "", <<FormRow("Lager", Blank, Blank, Blank)>>) }

\* float(field) if field else default
FieldOr(field, default) == IF field = Blank THEN Value(default) ELSE field[1]

\* value_score = (volume * abv) / price
ManualValueScore(volume, abv, price) ==
    LET product == Mul(volume, abv)
    IN  IF product.exc # "" THEN product ELSE Div(product.val, price)

\* `for i in range(len(beer_names)):` from row i on, inside the transaction
RECURSIVE ManualRows(_, _, _, _)
ManualRows(rows, i, establishment_id, tx) ==
    IF i > Len(rows) THEN [exc |-> "", tx |-> tx]
    ELSE
    LET r == rows[i]
        volume == FieldOr(r.volume, Num(12))
        abv == FieldOr(r.abv, Num(5))
        price == FieldOr(r.price, Num(6))
    IN  IF volume.exc # "" \/ abv.exc # "" \/ price.exc # ""
        THEN [exc |-> "ValueError", tx |-> tx]
        ELSE IF r.name = "" THEN ManualRows(rows, i + 1, establishment_id, tx)
        ELSE LET value_score == ManualValueScore(volume.val, abv.val, price.val)
                 row == BeerRow(tx.seq + 1, establishment_id, r.name, volume.val, abv.val,
                                price.val, value_score.val, "", None)
             IN  IF value_score.exc # "" THEN [exc |-> value_score.exc, tx |-> tx]
                 ELSE ManualRows(rows, i + 1, establishment_id,
                                 [rows |-> tx.rows \cup {row}, seq |-> tx.seq + 1])

\* one transaction, committed at the end; an exception leaves it uncommitted
ManualEntry(form) ==
    /\ pc = "idle"
    /\ clock < MaxClock
    /\ IF form.establishment_name = "" \/ form.rows = <<>>
       THEN UNCHANGED <<establishments, beers_table, seq_establishments, seq_beers, clock, prev>>
       ELSE LET saved == InsertOrReplace(establishments, seq_establishments, form.establishment_name,
                                         form.establishment_url, form.establishment_location, clock + 1)
                added == ManualRows(form.rows, 1, saved.lastrowid,
                                    [rows |-> DeleteBeers(beers_table, saved.lastrowid), seq |-> seq_beers])
            IN  /\ clock' = clock + 1
                /\ IF added.exc # ""
                   THEN /\ UNCHANGED <<establishments, beers_table, seq_establishments, seq_beers>>
                        /\ prev' = [NoPrev EXCEPT !.kind = "error"]
                   ELSE /\ establishments' = saved.rows
                        /\ seq_establishments' = saved.seq
                        /\ beers_table' = added.tx.rows
                        /\ seq_beers' = added.tx.seq
                        /\ prev' = [NoPrev EXCEPT !.kind = "manual", !.url = form.establishment_url]
    /\ UNCHANGED <<pc, call, before, view>>

----------------------------------------------------------------------------
(* The reader: the /establishments route, between any two steps *)

ReadEstablishments ==
    /\ pc # "off"
    /\ view' = BeerCounts(establishments, beers_table)
    /\ UNCHANGED <<establishments, beers_table, seq_establishments, seq_beers, clock, pc, call, before, prev>>

----------------------------------------------------------------------------
(* Specifications *)

StoreNext ==
    \/ \E url \in Urls, p \in StorePages : ScrapeMenu(url, p) /\ UNCHANGED <<valueVars, chainVars, parseVars>>
    \/ SaveEstablishment /\ UNCHANGED <<valueVars, chainVars, parseVars>>
    \/ SaveBeersDelete /\ UNCHANGED <<valueVars, chainVars, parseVars>>
    \/ \E ba_data \in Lookups : Lookup(ba_data) /\ UNCHANGED <<valueVars, chainVars, parseVars>>
    \/ Sleep /\ UNCHANGED <<valueVars, chainVars, parseVars>>
    \/ NoLookup /\ UNCHANGED <<valueVars, chainVars, parseVars>>
    \/ InsertBeer /\ UNCHANGED <<valueVars, chainVars, parseVars>>
    \/ CommitBeers /\ UNCHANGED <<valueVars, chainVars, parseVars>>
    \/ Return /\ UNCHANGED <<valueVars, chainVars, parseVars>>
    \/ \E form \in Forms : ManualEntry(form) /\ UNCHANGED <<valueVars, chainVars, parseVars>>
    \/ ReadEstablishments /\ UNCHANGED <<valueVars, chainVars, parseVars>>

Init == StoreInit /\ ValueIdle /\ ChainIdle /\ ParseIdle
Next == StoreNext
Spec == Init /\ [][Next]_vars

InitValue == ValueInit /\ ChainIdle /\ ParseIdle /\ StoreIdle
SpecValue == InitValue /\ [][ValueNext]_vars

InitParse == ParseInit /\ ValueIdle /\ ChainIdle /\ StoreIdle
SpecParse == InitParse /\ [][ParseNext]_vars

InitChain == ChainInit /\ ValueIdle /\ ParseIdle /\ StoreIdle
SpecChain == InitChain /\ [][ChainNext]_vars

----------------------------------------------------------------------------
(* Properties of the store (Spec) *)

Stored(url) == JoinedBeers(establishments, beers_table, url)

Columns(b) ==
    [name |-> b.name, volume_oz |-> b.volume_oz, abv |-> b.abv, price |-> b.price, brewery |-> b.brewery]

\* the rows of S in id order, each reduced to the columns an extracted item has
RECURSIVE InIdOrder(_)
InIdOrder(S) ==
    IF S = {} THEN <<>>
    ELSE LET first == CHOOSE b \in S : \A c \in S : b.id <= c.id
         IN  <<Columns(first)>> \o InIdOrder(S \ {first})

Extracted(items) == [i \in 1..Len(items) |-> Columns(items[i])]

\* C1: when a scrape of a url is about to return, the beers joined to the
\* establishment row of that url are exactly the beers this scrape extracted,
\* in order: whatever an earlier scrape of the url stored is no longer joined
\* to it, whether this scrape found beers or none.
C1_ReplaceSemantics ==
    pc = "return" => InIdOrder(Stored(call.url)) = Extracted(call.beers)

\* a second scrape of a url returns with a list that drops a beer the first stored
C1_Witness ==
    /\ pc = "return"
    /\ prev.kind = "scrape" /\ prev.url = call.url
    /\ before.ids # {}
    /\ call.beers # <<>>
    /\ \E i \in 1..Len(prev.beers) : \A j \in 1..Len(call.beers) : call.beers[j].name # prev.beers[i].name

\* C2: a scrape that finds no beer for a url stored with at least one beer
\* returns with no beer joined to the url, and with exactly one establishment
\* row for the url, stamped with the time of this scrape.
C2_ZeroItemRescrape ==
    (pc = "return" /\ call.beers = <<>> /\ before.ids # {}) =>
        /\ Stored(call.url) = {}
        /\ \E e \in establishments : e.url = call.url /\ e.last_scraped = clock
        /\ call.now = clock

C2_Witness ==
    pc = "return" /\ call.beers = <<>> /\ before.ids # {} /\ before.stored

\* what a reader of /establishments was shown for a url
CountSeen(v, url) ==
    IF \E r \in v : r[1] = url THEN (CHOOSE r \in v : r[1] = url)[2] ELSE 0

\* C3: a reader that queries while a scrape of a url is in progress is shown,
\* for that url, either the previous beers or the new beers: the count it sees
\* is the count before the scrape or the count the scrape extracted.
C3_AtomicReconciliation ==
    [][(ReadEstablishments /\ pc \notin {"idle", "off"}) =>
          CountSeen(view', call.url) \in {Cardinality(before.ids), Len(call.beers)}]_vars

\* C4: when a scrape that stores a new list for a url is about to return, after
\* an earlier scrape of the same url, no beer row that was stored for the url
\* before it is left in the table, and no beer row refers to an establishment
\* id that has no row.
C4_PreviousItemsDeleted ==
    (pc = "return" /\ call.beers # <<>> /\ prev.kind = "scrape" /\ prev.url = call.url) =>
        /\ \A b \in beers_table : b.id \notin before.ids
        /\ \A b \in beers_table : \E e \in establishments : e.id = b.establishment_id

\* C5: a scrape that repeats the scrape before it (same url, name, location and
\* beers) returns with exactly one establishment row for the url and with as
\* many beers joined to it as after the first.
C5_Idempotence ==
    (/\ pc = "return"
     /\ prev.kind = "scrape" /\ prev.url = call.url
     /\ prev.name = call.final_name /\ prev.location = call.final_location
     /\ prev.beers = call.beers) =>
        /\ Cardinality({e \in establishments : e.url = call.url}) = 1
        /\ Cardinality(Stored(call.url)) = prev.count

C5_Witness ==
    /\ pc = "return"
    /\ prev.kind = "scrape" /\ prev.url = call.url
    /\ prev.name = call.final_name /\ prev.location = call.final_location
    /\ prev.beers = call.beers /\ call.beers # <<>>
    /\ prev.count = Len(call.beers)

\* C9: every stored beer's value_score is calculate_value_score of the same
\* row's volume_oz, abv and price.
C9_StoredValueScore ==
    \A b \in beers_table :
        Value(b.value_score) = calculate_value_score(b.volume_oz, b.abv, b.price)

\* the positions of the log that hold an event of this kind
Positions(log, op) == {j \in 1..Len(log) : log[j].op = op}

\* the beers of the call that save_beers has finished with
Done == 1..(IF pc \in {"loop", "sleep", "insert"} THEN call.i - 1 ELSE Len(call.beers))

\* C13: within one save_beers, (a) any two lookups are separated by a sleep of
\* at least 1 time-unit, whether the earlier one found data or not; (b) the
\* events run in item-list order: of one beer the lookup comes before the
\* INSERT, and every event of a beer comes before every event of a later one;
\* (c) each finished beer has one INSERT, and one lookup exactly when it names
\* a brewery.
C13_EnrichmentPacing ==
    pc \in {"loop", "sleep", "insert", "return"} =>
        LET log == call.log
        IN  /\ \A j, k \in Positions(log, "lookup") :
                    j < k => log[k].at - log[j].at >= 1
            /\ \A j, k \in 1..Len(log) :
                    j < k => \/ log[j].i < log[k].i
                             \/ log[j].i = log[k].i /\ log[j].op = "lookup" /\ log[k].op = "insert"
            /\ \A i \in Done :
                    /\ Cardinality({j \in Positions(log, "insert") : log[j].i = i}) = 1
                    /\ Cardinality({j \in Positions(log, "lookup") : log[j].i = i})
                           = IF call.beers[i].brewery # "" THEN 1 ELSE 0

\* a save_beers that has finished, with two lookups of which the earlier
\* found nothing, and an INSERT between them
C13_Witness ==
    /\ pc = "return"
    /\ \E j, k \in Positions(call.log, "lookup") :
           /\ j < k /\ ~call.log[j].found
           /\ \E m \in Positions(call.log, "insert") : j < m /\ m < k

\* the establishment rows of one url, and the item rows attached to them
RowsOf(E, url) == {e \in E : e.url = url}

\* the urls that have a row, before or after the step
StoredUrls(E) == {e.url : e \in E}

\* a step taken by scrape_establishment, from the fetch to the return
ScrapeStep == (pc = "idle" /\ pc' = "save_establishment") \/ pc \notin {"idle", "off"}

\* C14: every step of scrape_establishment(U) leaves, for every url V other
\* than U, the establishment row of V (id, name, location, last_scraped) and
\* the item rows attached to it as they were; a V without a row gets none.
C14_ScrapeFrame ==
    [][ScrapeStep =>
          LET U == IF pc = "idle" THEN call'.url ELSE call.url
          IN  \A V \in (StoredUrls(establishments) \cup StoredUrls(establishments')) \ {U} :
                  /\ RowsOf(establishments', V) = RowsOf(establishments, V)
                  /\ JoinedBeers(establishments', beers_table', V)
                        = JoinedBeers(establishments, beers_table, V)]_vars

\* a scrape of a url that was stored with items has replaced its row and
\* committed new items, while another url is stored with items of its own
C14_Witness ==
    /\ pc = "return"
    /\ call.beers # <<>>
    /\ before.stored /\ before.ids # {}
    /\ \E e \in establishments :
           /\ e.url # call.url
           /\ JoinedBeers(establishments, beers_table, e.url) # {}

----------------------------------------------------------------------------
(* Properties of the value calculator (SpecValue) *)

\* (volume_oz * abv / 100) / price
Reference(volume_oz, abv, price) ==
    Div(Div(Mul(volume_oz, abv).val, Hundred).val, price)

----------------------------------------------------------------------------
(* Properties of the selector chains (SpecChain) *)

\* what the i-th strategy alone would yield
Yield(i) ==
    IF IsBeerMenus(request.url) THEN BeerMenusItems(select(page, i))
    ELSE GenericItems(select(page, i))

Strategies == 1..NumSelectors(request.url)

\* the i-th selector is the first that selects any element
FirstSelecting(i) == select(page, i) # <<>> /\ \A k \in 1..(i - 1) : select(page, k) = <<>>

\* the i-th strategy is the first that would yield an item
FirstYielding(i) == Yield(i) # <<>> /\ \A k \in 1..(i - 1) : Yield(k) = <<>>

\* C6 as claimed: when two strategies would each yield an item, the list
\* returned is the yield of the higher-priority one alone.
C6_FirstMatchWins ==
    (cpc = "returned" /\ page.ok) =>
        \A i, j \in Strategies :
            (i < j /\ FirstYielding(i) /\ Yield(j) # <<>>) => reply.beers = Yield(i)

\* C6 as amended: the generic chain returns the yield of the first selector
\* that selects any element, alone; the known-site chain returns the yields of
\* all its sections, one after the other.
C6_ChainResult ==
    (cpc = "returned" /\ page.ok) =>
        IF IsBeerMenus(request.url)
        THEN reply.beers = Yield(1) \o Yield(2) \o Yield(3) \o Yield(4) \o Yield(5)
        ELSE /\ \A i \in Strategies : FirstSelecting(i) => reply.beers = Yield(i)
             /\ (\A i \in Strategies : select(page, i) = <<>>) => reply.beers = <<>>

\* two known-site sections each yield an item and both are returned
C6_Witness ==
    /\ cpc = "returned" /\ page.ok /\ IsBeerMenus(request.url)
    /\ \E i, j \in Strategies :
          /\ i < j /\ Yield(i) # <<>> /\ Yield(j) # <<>>
          /\ reply.beers = Yield(i) \o Yield(j)

\* C7 as claimed: if some strategy would yield an item, the list returned is
\* not empty.
C7_KeepsTrying ==
    (cpc = "returned" /\ page.ok /\ \E i \in Strategies : Yield(i) # <<>>) => reply.beers # <<>>

\* C7 as amended: the known-site chain returns an item exactly when some
\* section yields one; the generic chain returns an item exactly when the first
\* selector that selects any element yields one.
C7_NonEmptyResult ==
    (cpc = "returned" /\ page.ok) =>
        (reply.beers # <<>>) =
            IF IsBeerMenus(request.url)
            THEN \E i \in Strategies : Yield(i) # <<>>
            ELSE \E i \in Strategies : FirstSelecting(i) /\ Yield(i) # <<>>

\* a generic selector that selects only nameless elements ends the chain
\* although a later selector would yield an item
C7_Witness ==
    /\ cpc = "returned" /\ page.ok /\ ~IsBeerMenus(request.url)
    /\ \E i, j \in Strategies :
          i < j /\ FirstSelecting(i) /\ Yield(i) = <<>> /\ Yield(j) # <<>>
    /\ reply.beers = <<>>

\* C10: the value returned for a page that was fetched and parsed but on which
\* no selector selects anything differs from the value returned, for the same
\* request, when the fetch or the parse failed.
C10_MissDistinguishable ==
    (cpc = "returned" /\ page.ok /\ \A i \in Strategies : select(page, i) = <<>>) =>
        reply.returned #
            Returned(Scraped(request.url, request.name, request.location, [page EXCEPT !.ok = FALSE]))

----------------------------------------------------------------------------
(* Properties of the item parsers (SpecParse) *)

\* the fragment has a name: a non-blank h3 > a, or leading letters
Named ==
    IF parser = "beermenus" THEN fragment.h3a # <<>> /\ fragment.h3a[1] # ""
    ELSE fragment.text.lead # ""

HasCaptionAbv == fragment.caption # <<>> /\ fragment.caption[1].nparts >= 2

\* what the fragment holds after a '%', after a '$', before 'oz', before 'ml'
AbvText ==
    IF parser = "beermenus" THEN (IF HasCaptionAbv THEN fragment.caption[1].abv ELSE NoMatch)
    ELSE fragment.text.pct

PriceText ==
    IF parser = "beermenus" THEN (IF fragment.right # <<>> THEN fragment.right[1].price ELSE NoMatch)
    ELSE fragment.text.dollar

OzText ==
    IF parser = "beermenus" THEN (IF fragment.right # <<>> THEN fragment.right[1].oz ELSE NoMatch)
    ELSE fragment.text.oz

MlText ==
    IF parser = "beermenus" THEN (IF fragment.right # <<>> THEN fragment.right[1].ml ELSE NoMatch)
    ELSE fragment.text.ml

\* the surrounding text mentions draft or tap service
MentionsDraft ==
    IF parser = "beermenus" THEN fragment.right # <<>> /\ fragment.right[1].draft
    ELSE fragment.text.draft

IsNumber(capture) == capture \notin {NoMatch, BadMatch}
NumberOf(capture) == capture[1].val

\* 0.033814 oz to the ml
OzPerMl == Frac(33814, 1000000)

\* C11: a fragment is dropped exactly when it has no name; a named fragment is
\* kept, and its abv and price are unknown, its volume a default, whenever the
\* text for them is absent or is not a number.
C11_PartialStructure ==
    ppc = "parsed" =>
        /\ (appended = <<>>) = ~Named
        /\ Named =>
              /\ appended # <<>>
              /\ ~IsNumber(AbvText) => appended[1].abv = None
              /\ ~IsNumber(PriceText) => appended[1].price = None
              /\ (~IsNumber(OzText) /\ ~IsNumber(MlText)) => appended[1].volume_oz \in {Num(12), Num(16)}

\* C12 as claimed: in both parsers an item's volume is the number found with
\* an oz marker, else the number found with an ml marker times 0.033814, and
\* when there is neither, 16.0 if the text mentions draft or tap, else 12.0.
C12_VolumeDefaultPolicy ==
    (ppc = "parsed" /\ appended # <<>>) =>
        appended[1].volume_oz =
            IF IsNumber(OzText) THEN NumberOf(OzText)
            ELSE IF IsNumber(MlText) THEN Mul(NumberOf(MlText), OzPerMl).val
            ELSE IF MentionsDraft THEN Num(16)
            ELSE Num(12)

\* C12 as amended: parse_beermenus_item follows that policy, with draft or tap
\* looked for in the price text; parse_generic_beer_info has one default,
\* 12.0, whatever the text mentions, uses it for a volume of 0 as well, and
\* reads an ml volume only from a text without 'oz' in it.
C12_VolumeDefaults ==
    (ppc = "parsed" /\ appended # <<>>) =>
        appended[1].volume_oz =
            IF parser = "beermenus"
            THEN IF IsNumber(OzText) THEN NumberOf(OzText)
                 ELSE IF IsNumber(MlText) THEN Mul(NumberOf(MlText), OzPerMl).val
                 ELSE IF MentionsDraft THEN Num(16)
                 ELSE Num(12)
            ELSE IF fragment.text.has_oz
                 THEN (IF IsNumber(OzText) /\ ~IsZero(NumberOf(OzText)) THEN NumberOf(OzText) ELSE Num(12))
                 ELSE IF IsNumber(MlText) THEN Mul(NumberOf(MlText), OzPerMl).val
                 ELSE Num(12)

\* a generic fragment on draft, with no volume in it, is given 12.0
C12_Witness ==
    /\ ppc = "parsed" /\ parser = "generic" /\ appended # <<>>
    /\ MentionsDraft /\ ~fragment.text.has_oz /\ ~fragment.text.has_ml
    /\ appended[1].volume_oz = Num(12)

====
